---- MODULE Spec2Model ----
(***************************************************************************)
(* Canvas -> Notion assignment sync (canvas_to_notion.py).                 *)
(*                                                                         *)
(* One behaviour is a sequence of runs of main() against a Canvas source   *)
(* that stays fixed and a Notion parent page whose child blocks persist    *)
(* from run to run.  Every HTTP request of the script is one step; the     *)
(* response status is chosen by the remote side.                           *)
(***************************************************************************)
EXTENDS Integers, Sequences, FiniteSets, TLC

VARIABLES
    cfg,          \* environment: CANVAS_COURSE_IDS, DUE_DATE_PERIOD_*, INCLUDE_...
    source,       \* Canvas: active courses and their assignments
    children,     \* Notion: child blocks of NOTION_PARENT_PAGE_ID, id = index
    run,          \* number of runs of main() started so far
    pc,           \* position of the current run inside main()
    course_map,   \* main: course_map (its keys, in insertion order)
    ci,           \* get_all_filtered_assignments: courses already fetched
    all_items,    \* get_all_filtered_assignments: all_items / main: assignments
    next_cursor,  \* archive_existing_database: next_cursor (0 = None)
    to_archive,   \* archive_existing_database: matching children of the page still to patch
    has_more,     \* archive_existing_database: has_more
    new_db_id,    \* main: new_db_id (0 = not created)
    si,           \* sync_assignments_to_notion: items already processed
    submission,   \* sync_assignments_to_notion: submission of the current item
    calls,        \* the HTTP requests of the current run, in order, with their status
    live_at_start, \* the non-archived databases titled NOTION_DB_TITLE when the run began
    children_at_start, \* the child blocks of the parent page when the run began
    clock         \* create_assignment_page: now, as last read (0 = not read in this run)

vars == <<cfg, source, children, run, pc, course_map, ci, all_items,
          next_cursor, to_archive, has_more, new_db_id, si, submission, calls,
          live_at_start, children_at_start, clock>>

----------------------------------------------------------------------------
(* Bounds *)

MaxRuns == 2      \* runs of main() in one behaviour
PageSize == 2     \* children returned per listing page (page_size=100 in the code)
MaxDay == 3       \* calendar days 0..MaxDay of the due dates and bounds of FilterSpec

----------------------------------------------------------------------------
(* Values *)

NOTION_DB_TITLE == "Canvas Course - Track Assignments"
OtherTitle == "Reading list"

OK == 200
NotFound == 404
ServerError == 500
Statuses == {OK, NotFound, ServerError}

\* Python None for a datetime
None == [k |-> "none", aware |-> FALSE, day |-> 0, hour |-> 0, off |-> 0]

\* str(int): the decimal digits
RECURSIVE ToStr(_)
ToStr(n) == IF n < 10 THEN <<n>> ELSE Append(ToStr(n \div 10), n % 10)

\* A Canvas timestamp field: JSON null, "", a malformed string, or
\* "<day>T<hour>:00:00<suffix>" with suffix "Z", an offset, or nothing.
NullStr == [k |-> "null", day |-> 0, hour |-> 0, suffix |-> ""]
EmptyStr == [k |-> "empty", day |-> 0, hour |-> 0, suffix |-> ""]
BadStr == [k |-> "bad", day |-> 0, hour |-> 0, suffix |-> ""]
Iso(d, h, s) == [k |-> "iso", day |-> d, hour |-> h, suffix |-> s]

Suffixes == {"Z", "+00:00", "+02:00", "-05:00", ""}

\* value.replace("Z", "+00:00")
ReplaceZ(s) == IF s = "Z" THEN "+00:00" ELSE s

\* the UTC offset, in hours, that datetime.fromisoformat reads from the suffix
OffsetHours(s) ==
    CASE s = "+00:00" -> 0
      [] s = "+02:00" -> 2
      [] s = "-05:00" -> 0 - 5
      [] OTHER -> 0

parse_canvas_datetime(value) ==
    IF value.k \in {"null", "empty"} THEN None
    ELSE IF value.k = "bad" THEN None
    ELSE LET s == ReplaceZ(value.suffix)
         IN [k |-> "dt", aware |-> (s # ""), day |-> value.day,
             hour |-> value.hour, off |-> OffsetHours(s)]

\* A DUE_DATE_PERIOD_* variable: "", a malformed string, or "YYYY-MM-DD"
NoDate == [k |-> "empty", day |-> 0]
BadDate == [k |-> "bad", day |-> 0]
Date(d) == [k |-> "date", day |-> d]

parse_filter_date(value) ==
    IF value.k = "empty" THEN None
    ELSE IF value.k = "bad" THEN None
    ELSE [k |-> "dt", aware |-> TRUE, day |-> value.day, hour |-> 0, off |-> 0]

\* variant: the wall-clock reading, the UTC offset ignored
InstantLocal(dt) == dt.day * 24 + dt.hour

\* the instant of a datetime, in hours since day 0 00:00 UTC
Instant(dt) == (dt.day * 24 + dt.hour) - dt.off

DUE_DATE_START_DT == parse_filter_date(cfg.start)
DUE_DATE_END_DT == parse_filter_date(cfg.end)
INCLUDE_ASSIGNMENTS_WITHOUT_DUE_DATE == cfg.undated
CANVAS_COURSE_IDS == cfg.ids

\* comparing an offset-naive with an offset-aware datetime raises TypeError
FilterRaises(assignment) ==
    LET due == parse_canvas_datetime(assignment.due_at)
    IN /\ due # None
       /\ ~due.aware
       /\ (DUE_DATE_START_DT # None \/ DUE_DATE_END_DT # None)

\* variant: rule 4 (no window, no filtering) tested before rule 5 (no due_at)
filter_window_first(assignment) ==
    LET due == parse_canvas_datetime(assignment.due_at)
    IN IF DUE_DATE_START_DT = None /\ DUE_DATE_END_DT = None THEN TRUE
       ELSE IF due = None THEN INCLUDE_ASSIGNMENTS_WITHOUT_DUE_DATE
       ELSE IF DUE_DATE_START_DT # None /\ DUE_DATE_END_DT # None
            THEN /\ Instant(DUE_DATE_START_DT) <= Instant(due)
                 /\ Instant(due) <= Instant(DUE_DATE_END_DT)
       ELSE IF DUE_DATE_END_DT # None
            THEN Instant(due) <= Instant(DUE_DATE_END_DT)
       ELSE Instant(due) >= Instant(DUE_DATE_START_DT)

assignment_passes_due_date_filter(assignment) ==
    LET due == parse_canvas_datetime(assignment.due_at)
    IN IF due = None THEN INCLUDE_ASSIGNMENTS_WITHOUT_DUE_DATE
       ELSE IF DUE_DATE_START_DT # None /\ DUE_DATE_END_DT # None
            THEN /\ Instant(DUE_DATE_START_DT) <= Instant(due)
                 /\ Instant(due) <= Instant(DUE_DATE_END_DT)
       ELSE IF DUE_DATE_END_DT # None /\ DUE_DATE_START_DT = None
            THEN Instant(due) <= Instant(DUE_DATE_END_DT)
       ELSE IF DUE_DATE_START_DT # None /\ DUE_DATE_END_DT = None
            THEN Instant(due) >= Instant(DUE_DATE_START_DT)
       ELSE TRUE

----------------------------------------------------------------------------
(* Canvas *)

\* a JSON value of a response or of a page property: null, a string, a
\* number, a date, or a date with time and UTC offset
Value(t, str, n, day, hour, off) ==
    [t |-> t, s |-> str, n |-> n, day |-> day, hour |-> hour, off |-> off]
Null == Value("null", "", 0, 0, 0, 0)
Text(str) == Value("str", str, 0, 0, 0, 0)
Number(n) == Value("num", "", n, 0, 0, 0)

\* a submission object of /submissions/self; NoSubmission is Python None
NoSubmission ==
    [present |-> FALSE, workflow_state |-> "", score |-> Null, submitted_at |-> NullStr]
Submission(ws) ==
    [present |-> TRUE, workflow_state |-> ws, score |-> Null, submitted_at |-> NullStr]

\* an assignment object with its optional fields null; sub, sub_score and
\* sub_submitted_at are what /submissions/self holds for it
Assignment(i, due, sub) ==
    [id |-> i, due_at |-> due, sub |-> sub,
     name |-> Text("Essay"), html_url |-> Null, updated_at |-> NullStr,
     description |-> Null, points_possible |-> Null,
     sub_score |-> Null, sub_submitted_at |-> NullStr]

\* the same assignment with its optional fields filled in
Detailed(a, url, updated, points, score, submitted) ==
    [a EXCEPT !.html_url = url, !.updated_at = updated,
              !.description = Text("<p>Read chapter 2</p>"),
              !.points_possible = points,
              !.sub_score = score, !.sub_submitted_at = submitted]

\* the submission object Canvas returns for an assignment
SubmissionOf(assignment) ==
    [Submission(assignment.sub) EXCEPT !.score = assignment.sub_score,
                                       !.submitted_at = assignment.sub_submitted_at]

AllCourses == {101, 102, 103}

\* the course a course_map key addresses in a request URL
CourseOf(cid) == CHOOSE c \in AllCourses : ToStr(c) = cid

\* the assignments of the courses of the main specification
Catalog ==
    [c \in AllCourses |->
        IF c = 101
        THEN << Assignment(11, NullStr, "absent"),
                Detailed(Assignment(12, Iso(2, 0, "Z"), "unsubmitted"),
                         Text("https://canvas/12"), Iso(1, 0, "Z"), Number(10),
                         Null, NullStr),
                Detailed(Assignment(13, Iso(2, 1, "+02:00"), "graded"),
                         Text("https://canvas/13"), Iso(1, 2, "+02:00"), Number(0),
                         Number(0), Iso(1, 23, "Z")) >>
        ELSE IF c = 102
        THEN << Detailed(Assignment(21, BadStr, "submitted"),
                         Null, BadStr, Null, Number(7), BadStr),
                Assignment(22, Iso(3, 0, "-05:00"), "absent") >>
        ELSE << Assignment(31, Iso(1, 0, ""), "absent") >>]

MainSources ==
    { [active |-> act, assignments |-> Catalog] :
        act \in {<<>>, <<101>>, <<101, 102>>, <<102, 103>>} }

MainCfgs ==
    [ids : {{}, {ToStr(101)}, {ToStr(102), ToStr(104)}},
     start : {NoDate, Date(2)},
     end : {NoDate, BadDate, Date(2)},
     undated : BOOLEAN]

\* the instants datetime.now(timezone.utc) may return, in hours
NowSet == {47, 48, 49}

----------------------------------------------------------------------------
(* Notion *)

\* a property of a database schema: its type and, for a select, its options
Property(type) == [type |-> type, options |-> {}]
Select(options) == [type |-> "select", options |-> options]
Option(name, color) == [name |-> name, color |-> color]

\* the legacy schema
build_db_properties_schema ==
    [Name |-> Property("title"),
     AssignmentUpdatedDate |-> Property("date"),
     Class |-> Property("rich_text"),
     Description |-> Property("rich_text"),
     DueDate |-> Property("date"),
     ID |-> Property("rich_text"),
     Link |-> Property("url"),
     Points |-> Property("number"),
     Score |-> Property("number"),
     Status |-> Select({Option("Overdue", "yellow"),
                        Option("In Progress", "orange"),
                        Option("Completed", "green"),
                        Option("Not Started", "blue")}),
     SubmittedDate |-> Property("date")]

\* a child database as create_new_database makes it: legacy schema, no page
Database(title, archived) ==
    [type |-> "child_database", title |-> title, archived |-> archived,
     schema |-> build_db_properties_schema, pages |-> <<>>]
Paragraph ==
    [type |-> "paragraph", title |-> "", archived |-> FALSE,
     schema |-> build_db_properties_schema, pages |-> <<>>]

\* variant: the listing resumes after the block the cursor names
ListedAfterCursor(cursor) ==
    { i \in 1..Len(children) : ~children[i].archived /\ i > cursor }

\* GET /v1/blocks/{parent}/children: the ids of the blocks the listing returns,
\* in order, from the cursor on.  Notion does not list archived blocks.
Listed(cursor) ==
    { i \in 1..Len(children) : ~children[i].archived /\ i >= cursor }

RECURSIVE SortedSeq(_)
SortedSeq(S) ==
    IF S = {} THEN <<>>
    ELSE LET m == CHOOSE x \in S : \A y \in S : x <= y
         IN <<m>> \o SortedSeq(S \ {m})

\* one page of the listing: results, has_more, next_cursor
ListPage(cursor) ==
    LET all == SortedSeq(Listed(cursor))
        n == IF Len(all) < PageSize THEN Len(all) ELSE PageSize
    IN [results |-> SubSeq(all, 1, n),
        has_more |-> Len(all) > n,
        next_cursor |-> IF Len(all) > n THEN all[n + 1] ELSE 0]

\* the children of a page that archive_existing_database patches
MatchesTitle(i) ==
    /\ children[i].type = "child_database"
    /\ children[i].title = NOTION_DB_TITLE

\* the non-archived databases titled NOTION_DB_TITLE under the parent page
LiveTitled == { i \in 1..Len(children) : MatchesTitle(i) /\ ~children[i].archived }

Request(op, status, target) == [op |-> op, status |-> status, target |-> target]

\* status logic of create_assignment_page
has_submitted(sub) == sub.present

StatusRaises(sub, due_at) ==
    /\ ~has_submitted(sub)
    /\ due_at # None
    /\ ~due_at.aware

\* variant: the due date is looked at before the submission
status_overdue_first(sub, due_at, now) ==
    IF due_at # None /\ Instant(due_at) < now THEN "Overdue"
    ELSE IF has_submitted(sub) THEN "Completed"
    ELSE "Not Started"

status_name(sub, due_at, now) ==
    IF has_submitted(sub) THEN "Completed"
    ELSE IF due_at # None /\ Instant(due_at) < now THEN "Overdue"
    ELSE "Not Started"

\* course_code and name of the course objects of /api/v1/courses
CourseData(c) ==
    IF c = 101 THEN [course_code |-> Text("MATH-1"), name |-> Text("Mathematics")]
    ELSE IF c = 102 THEN [course_code |-> Null, name |-> Text("History")]
    ELSE [course_code |-> Null, name |-> Null]

\* the entry get_canvas_courses puts in course_map for a course
CourseInfo(cid) ==
    LET c == CourseData(CourseOf(cid))
        short_name == IF c.course_code # Null THEN c.course_code
                      ELSE IF c.name # Null THEN c.name
                      ELSE Value("str", "Course", CourseOf(cid), 0, 0, 0)
    IN [short_name |-> short_name,
        full_name |-> IF c.name # Null THEN c.name ELSE short_name]

\* datetime.isoformat(): the date, the time and the UTC offset
IsoFormat(dt) == Value("datetime", "", 0, dt.day, dt.hour, dt.off)

\* datetime.date().isoformat(): the calendar date of the datetime
DateIsoFormat(dt) == Value("date", "", 0, dt.day, 0, 0)

\* props[key] = value when the condition holds, no entry otherwise
Optional(cond, key, value) == IF cond THEN key :> value ELSE <<>>

\* the properties of the page create_assignment_page posts
PageProps(course_info, assignment, sub, now) ==
    LET updated_at == parse_canvas_datetime(assignment.updated_at)
        due_at == parse_canvas_datetime(assignment.due_at)
        points_possible == assignment.points_possible
        score == IF has_submitted(sub) THEN sub.score ELSE Null
        submitted_at == IF has_submitted(sub)
                        THEN parse_canvas_datetime(sub.submitted_at) ELSE None
        desc == assignment.description
    IN [Name |-> IF assignment.name # Null /\ assignment.name # Text("")
                 THEN assignment.name ELSE Text("Untitled Assignment"),
        Class |-> course_info.short_name,
        ID |-> ToStr(assignment.id),
        Link |-> assignment.html_url,
        Status |-> status_name(sub, due_at, now)]
       @@ Optional(updated_at # None, "AssignmentUpdatedDate", IsoFormat(updated_at))
       @@ Optional(desc # Null /\ desc # Text(""), "Description", desc)
       @@ Optional(due_at # None, "DueDate", DateIsoFormat(due_at))
       @@ Optional(points_possible # Null, "Points", points_possible)
       @@ Optional(score # Null, "Score", score)
       @@ Optional(submitted_at # None, "SubmittedDate", IsoFormat(submitted_at))

----------------------------------------------------------------------------
(* main() *)

\* a Status select to which the user has added an option
CustomSchema ==
    [build_db_properties_schema EXCEPT
        !.Status = Select(@.options \cup {Option("Blocked", "red")})]

\* a database of the title that an earlier sync filled and the user edited:
\* it holds the page of assignment 22 and a customised schema
EarlierDatabase ==
    [Database(NOTION_DB_TITLE, FALSE) EXCEPT
        !.schema = CustomSchema,
        !.pages = << PageProps(CourseInfo(ToStr(102)), Catalog[102][2],
                               NoSubmission, 49) >>]

\* the parent page before the first run: empty; one database of the title;
\* or other blocks and two databases of the title
InitChildren ==
    { <<>>,
      << EarlierDatabase >>,
      << Paragraph, Database(OtherTitle, FALSE),
         Database(NOTION_DB_TITLE, FALSE), Database(NOTION_DB_TITLE, FALSE) >> }

Init ==
    /\ cfg \in MainCfgs
    /\ source \in MainSources
    /\ children \in InitChildren
    /\ run = 0
    /\ pc = "idle"
    /\ course_map = <<>>
    /\ ci = 0
    /\ all_items = <<>>
    /\ next_cursor = 0
    /\ to_archive = <<>>
    /\ has_more = TRUE
    /\ new_db_id = 0
    /\ si = 0
    /\ submission = NoSubmission
    /\ calls = <<>>
    /\ live_at_start = {}
    /\ children_at_start = children
    /\ clock = 0

\* the single-assignment sources and the windows of the filter specification
DueStrings ==
    {NullStr, EmptyStr, BadStr}
        \cup { Iso(d, h, s) : d \in 0..MaxDay, h \in {0, 2, 23}, s \in Suffixes }

FilterBounds == {NoDate, BadDate} \cup { Date(d) : d \in 0..MaxDay }

FilterInit ==
    /\ cfg \in [ids : {{}}, start : FilterBounds, end : FilterBounds, undated : BOOLEAN]
    /\ \E due \in DueStrings :
         source = [active |-> <<101>>,
                   assignments |->
                       [c \in AllCourses |->
                           IF c = 101 THEN << Assignment(11, due, "absent") >>
                           ELSE <<>>]]
    /\ children = <<>>
    /\ run = 0
    /\ pc = "idle"
    /\ course_map = <<>>
    /\ ci = 0
    /\ all_items = <<>>
    /\ next_cursor = 0
    /\ to_archive = <<>>
    /\ has_more = TRUE
    /\ new_db_id = 0
    /\ si = 0
    /\ submission = NoSubmission
    /\ calls = <<>>
    /\ live_at_start = {}
    /\ children_at_start = children
    /\ clock = 0

\* the submission states of Canvas, and "absent" for no submission (404)
WorkflowStates == {"unsubmitted", "submitted", "graded", "pending_review"}

\* one assignment of every due date and every submission state, no window
StatusInit ==
    /\ cfg = [ids |-> {}, start |-> NoDate, end |-> NoDate, undated |-> TRUE]
    /\ \E due \in DueStrings, sub \in WorkflowStates \cup {"absent"} :
         source = [active |-> <<101>>,
                   assignments |->
                       [c \in AllCourses |->
                           IF c = 101 THEN << Assignment(11, due, sub) >>
                           ELSE <<>>]]
    /\ children = <<>>
    /\ run = 0
    /\ pc = "idle"
    /\ course_map = <<>>
    /\ ci = 0
    /\ all_items = <<>>
    /\ next_cursor = 0
    /\ to_archive = <<>>
    /\ has_more = TRUE
    /\ new_db_id = 0
    /\ si = 0
    /\ submission = NoSubmission
    /\ calls = <<>>
    /\ live_at_start = {}
    /\ children_at_start = children
    /\ clock = 0

\* variant: the exception is caught and the run reported as completed
FailSwallowed == pc' = "done"

\* a request raised (raise_for_status) or a TypeError escaped: main() ends
Fail == pc' = "failed"

\* main, ensure_env: a new run; a missing variable raises before any request
StartRun ==
    /\ pc \in {"idle", "done", "failed"}
    /\ run < MaxRuns
    /\ run' = run + 1
    /\ \E envOk \in BOOLEAN : pc' = IF envOk THEN "courses" ELSE "failed"
    /\ course_map' = <<>>
    /\ ci' = 0
    /\ all_items' = <<>>
    /\ next_cursor' = 0
    /\ to_archive' = <<>>
    /\ has_more' = TRUE
    /\ new_db_id' = 0
    /\ si' = 0
    /\ submission' = NoSubmission
    /\ calls' = <<>>
    /\ live_at_start' = LiveTitled
    /\ children_at_start' = children
    /\ clock' = 0
    /\ UNCHANGED <<cfg, source, children>>

\* variant: CANVAS_COURSE_IDS is not applied
FilteredCoursesAll(courses) == [i \in 1..Len(courses) |-> ToStr(courses[i])]

\* the keys of the course_map that get_canvas_courses builds from a response
FilteredCourses(courses) ==
    LET cids == [i \in 1..Len(courses) |-> ToStr(courses[i])]
    IN IF CANVAS_COURSE_IDS # {}
       THEN SelectSeq(cids, LAMBDA c : c \in CANVAS_COURSE_IDS)
       ELSE cids

\* main step 1: get_canvas_courses, and the early return on an empty map
GetCanvasCourses ==
    /\ pc = "courses"
    /\ \E st \in Statuses :
        /\ calls' = Append(calls, Request("courses", st, 0))
        /\ IF st # OK
           THEN Fail /\ UNCHANGED course_map
           ELSE /\ course_map' = FilteredCourses(source.active)
                /\ pc' = IF course_map' = <<>> THEN "done" ELSE "assignments"
    /\ UNCHANGED <<cfg, source, children, run, ci, all_items, next_cursor,
                   to_archive, has_more, new_db_id, si, submission, live_at_start,
                   children_at_start, clock>>

\* variant: the due-date filter is not applied
FilteredItemsAll(cid, assignments) ==
    [i \in 1..Len(assignments) |-> [cid |-> cid, assignment |-> assignments[i]]]

\* the (cid, assignment) pairs one course adds to all_items
FilteredItems(cid, assignments) ==
    LET kept == SelectSeq(assignments, assignment_passes_due_date_filter)
    IN [i \in 1..Len(kept) |-> [cid |-> cid, assignment |-> kept[i]]]

\* variant: step 3 starts as soon as some assignment has been retained
AfterCourseEager(fetched, items) ==
    IF items # <<>> THEN "archive_list"
    ELSE IF fetched < Len(course_map) THEN "assignments"
    ELSE "done"

\* variant: no early return on an empty list
AfterCourseNoReturn(fetched, items) ==
    IF fetched < Len(course_map) THEN "assignments" ELSE "archive_list"

\* where main goes after a course is fetched: the next course, the early
\* return on an empty list, or step 3
AfterCourse(fetched, items) ==
    IF fetched < Len(course_map) THEN "assignments"
    ELSE IF items = <<>> THEN "done"
    ELSE "archive_list"

\* main step 2: one iteration of the loop of get_all_filtered_assignments,
\* and after the last course the early return on an empty list
GetAssignmentsForCourse ==
    /\ pc = "assignments"
    /\ ci < Len(course_map)
    /\ LET cid == course_map[ci + 1]
           assignments == source.assignments[CourseOf(cid)]
       IN \E st \in Statuses :
            /\ calls' = Append(calls, Request("assignments", st, CourseOf(cid)))
            /\ IF st # OK \/ \E i \in 1..Len(assignments) : FilterRaises(assignments[i])
               THEN Fail /\ UNCHANGED <<ci, all_items>>
               ELSE /\ all_items' = all_items \o FilteredItems(cid, assignments)
                    /\ ci' = ci + 1
                    /\ pc' = AfterCourse(ci', all_items')
    /\ UNCHANGED <<cfg, source, children, run, course_map, next_cursor,
                   to_archive, has_more, new_db_id, si, submission, live_at_start,
                   children_at_start, clock>>

\* variant: the listing is read once, has_more is not followed
AfterPageNoLoop(more) == "create"

\* where archive_existing_database goes once the matches of a page are patched
AfterPage(more) == IF more THEN "archive_list" ELSE "create"

\* archive_existing_database: one GET of the while loop
ArchiveListChildren ==
    /\ pc = "archive_list"
    /\ \E st \in Statuses :
        /\ calls' = Append(calls, Request("children", st, 0))
        /\ IF st # OK
           THEN Fail /\ UNCHANGED <<to_archive, has_more, next_cursor>>
           ELSE LET data == ListPage(next_cursor)
                IN /\ to_archive' = SelectSeq(data.results, MatchesTitle)
                   /\ has_more' = data.has_more
                   /\ next_cursor' = data.next_cursor
                   /\ pc' = IF to_archive' # <<>> THEN "archive_patch"
                            ELSE AfterPage(has_more')
    /\ UNCHANGED <<cfg, source, children, run, course_map, ci, all_items,
                   new_db_id, si, submission, live_at_start,
                   children_at_start, clock>>

\* archive_existing_database: one PATCH {"archived": true}
ArchivePatch ==
    /\ pc = "archive_patch"
    /\ to_archive # <<>>
    /\ LET db_id == Head(to_archive)
       IN \E st \in Statuses :
            /\ calls' = Append(calls, Request("archive", st, db_id))
            /\ IF st # OK
               THEN Fail /\ UNCHANGED <<children, to_archive>>
               ELSE /\ children' = [children EXCEPT ![db_id].archived = TRUE]
                    /\ to_archive' = Tail(to_archive)
                    /\ pc' = IF to_archive' # <<>> THEN "archive_patch"
                             ELSE AfterPage(has_more)
    /\ UNCHANGED <<cfg, source, run, course_map, ci, all_items, next_cursor,
                   has_more, new_db_id, si, submission, live_at_start,
                   children_at_start, clock>>

\* main step 3, second half: create_new_database
CreateNewDatabase ==
    /\ pc = "create"
    /\ \E st \in Statuses :
        /\ calls' = Append(calls, Request("create_db", st, 0))
        /\ IF st # OK
           THEN Fail /\ UNCHANGED <<children, new_db_id>>
           ELSE /\ children' = Append(children, Database(NOTION_DB_TITLE, FALSE))
                /\ new_db_id' = Len(children')
                /\ pc' = "submission"
    /\ UNCHANGED <<cfg, source, run, course_map, ci, all_items, next_cursor,
                   to_archive, has_more, si, submission, live_at_start,
                   children_at_start, clock>>

\* variant: the loop keeps working on the first item
CurrentItemFirst == all_items[1]

\* the item of the for loop of sync_assignments_to_notion
CurrentItem == all_items[si + 1]

\* the statuses /submissions/self can answer with for an assignment
SubmissionStatuses(assignment) ==
    IF assignment.sub = "absent" THEN {NotFound, ServerError} ELSE {OK, ServerError}

\* sync_assignments_to_notion: get_canvas_submission for the current item
GetCanvasSubmission ==
    /\ pc = "submission"
    /\ si < Len(all_items)
    /\ LET assignment == CurrentItem.assignment
       IN \E st \in SubmissionStatuses(assignment) :
            /\ calls' = Append(calls, Request("submission", st, 0))
            /\ IF st = NotFound
               THEN submission' = NoSubmission /\ pc' = "page"
               ELSE IF st # OK
               THEN Fail /\ UNCHANGED submission
               ELSE submission' = SubmissionOf(assignment) /\ pc' = "page"
    /\ UNCHANGED <<cfg, source, children, run, course_map, ci, all_items,
                   next_cursor, to_archive, has_more, new_db_id, si, live_at_start,
                   children_at_start, clock>>

\* variant: the parent is looked up by title among all child databases
PageParentByTitle == CHOOSE i \in 1..Len(children) : MatchesTitle(i)

\* the database a page is posted to
PageParent == new_db_id

\* sync_assignments_to_notion: create_assignment_page for the current item
CreateAssignmentPage ==
    /\ pc = "page"
    /\ LET assignment == CurrentItem.assignment
           due_at == parse_canvas_datetime(assignment.due_at)
       IN IF StatusRaises(submission, due_at)
          THEN Fail /\ (\E now \in NowSet : clock' = now)
                    /\ UNCHANGED <<children, si, calls>>
          ELSE \E st \in Statuses, now \in NowSet :
                /\ clock' = now
                /\ calls' = Append(calls, Request("create_page", st, PageParent))
                /\ IF st # OK
                   THEN Fail /\ UNCHANGED <<children, si>>
                   ELSE /\ children' =
                             [children EXCEPT ![PageParent].pages =
                                 Append(@, PageProps(CourseInfo(CurrentItem.cid), assignment,
                                                     submission, now))]
                        /\ si' = si + 1
                        /\ pc' = IF si' < Len(all_items) THEN "submission" ELSE "done"
    /\ UNCHANGED <<cfg, source, run, course_map, ci, all_items, next_cursor,
                   to_archive, has_more, new_db_id, submission, live_at_start,
                   children_at_start>>

Next ==
    \/ StartRun
    \/ GetCanvasCourses
    \/ GetAssignmentsForCourse
    \/ ArchiveListChildren
    \/ ArchivePatch
    \/ CreateNewDatabase
    \/ GetCanvasSubmission
    \/ CreateAssignmentPage

Spec == Init /\ [][Next]_vars

\* the same program, started on every due date and every window
FilterSpec == FilterInit /\ [][Next]_vars

\* the same program, started on every due date and every submission state
StatusSpec == StatusInit /\ [][Next]_vars

----------------------------------------------------------------------------
(* Properties *)

Positions == 1..Len(calls)
NotionOps == {"children", "archive", "create_db", "create_page"}
MigrationOps == {"children", "archive", "create_db"}

\* the successful create_new_database request of the run precedes position i
CreatedBefore(i) ==
    \E j \in 1..(i - 1) : calls[j].op = "create_db" /\ calls[j].status = OK

\* C1: in every run, a database is archived only after the new database of
\* the run has been created: no archive request precedes the successful
\* create request.
C1_CreateBeforeArchive ==
    \A i \in Positions : calls[i].op = "archive" => CreatedBefore(i)

\* C2: a run that fails before its new database exists leaves every database
\* that was live when it began non-archived, and a run that began with a live
\* database of the title always has a live database of the title.
C2_OldStoreSurvives ==
    /\ (pc = "failed" /\ new_db_id = 0)
          => \A d \in live_at_start : ~children[d].archived
    /\ live_at_start # {} => LiveTitled # {}

\* C3: no page is ever created in a database that is archived at that moment.
C3_NoWriteToArchived ==
    [][\A d \in 1..Len(children) :
          Len(children'[d].pages) > Len(children[d].pages)
              => ~children[d].archived /\ ~children'[d].archived]_vars

\* a later run has written pages while a database with pages of an earlier
\* run is archived
C3_Witness ==
    /\ new_db_id # 0
    /\ children[new_db_id].pages # <<>>
    /\ \E d \in 1..Len(children) :
          children[d].archived /\ children[d].pages # <<>>

\* C4: no database ever holds two pages with the same ID value.
C4_UniqueKeyPerStore ==
    \A d \in 1..Len(children) :
        \A i, j \in 1..Len(children[d].pages) :
            children[d].pages[i].ID = children[d].pages[j].ID => i = j

\* a run wrote several pages to its database, which is not the first child
\* of the parent page
C4_Witness ==
    /\ pc = "done"
    /\ new_db_id > 1
    /\ Len(children[new_db_id].pages) >= 2

\* some migration request of the run did not succeed
MigrationFailed ==
    \E i \in Positions : calls[i].op \in MigrationOps /\ calls[i].status # OK

\* C5: a page is posted only after the archive pass has run to its end and
\* the new database has been created, and a run whose migration fails posts
\* no page.
C5_MigrationBeforeRecords ==
    /\ \A i \in Positions :
          calls[i].op = "create_page"
              => /\ CreatedBefore(i)
                 /\ ~has_more
                 /\ to_archive = <<>>
                 /\ calls[i].target = new_db_id
                 /\ \A k \in Positions :
                       calls[k].op \in MigrationOps => k < i /\ calls[k].status = OK
    /\ MigrationFailed
          => /\ \A i \in Positions : calls[i].op # "create_page"
             /\ pc = "failed"

\* a run archived an old database over two listing pages, created the new
\* one and posted pages
C5_Witness ==
    /\ pc = "done"
    /\ \E i \in Positions : calls[i].op = "archive"
    /\ Cardinality({ i \in Positions : calls[i].op = "children" }) >= 2
    /\ \E i \in Positions : calls[i].op = "create_page"

Stage(op) ==
    CASE op = "courses" -> 1
      [] op = "assignments" -> 2
      [] op \in {"children", "archive"} -> 3
      [] op = "create_db" -> 4
      [] OTHER -> 5

Raises(c) == c.status # OK /\ ~(c.op = "submission" /\ c.status = NotFound)

\* the due date of the current item carries no UTC offset (comparing it with
\* now is a TypeError, not a response)
NaiveDue ==
    /\ CurrentItem.assignment.due_at.k = "iso"
    /\ CurrentItem.assignment.due_at.suffix = ""

\* C7: a non-success response is the last request of its run and the run
\* fails, except that after a 404 of the submission lookup the run goes on
\* with that assignment, without a submission: its next request is the post
\* of the page.
C7_FailFast ==
    /\ \A i \in Positions :
          Raises(calls[i]) => i = Len(calls) /\ pc = "failed"
    /\ \A i \in Positions :
          (calls[i].op = "submission" /\ calls[i].status = NotFound)
              => IF i = Len(calls)
                 THEN /\ submission = NoSubmission
                      /\ pc = "page" \/ (pc = "failed" /\ NaiveDue)
                 ELSE calls[i + 1].op = "create_page"

\* a run failed on a Notion request after a 404 of the submission lookup had
\* been passed over
C7_Witness ==
    /\ pc = "failed"
    /\ Len(calls) >= 2
    /\ calls[Len(calls)].op = "create_page"
    /\ calls[Len(calls)].status = ServerError
    /\ calls[Len(calls) - 1].op = "submission"
    /\ calls[Len(calls) - 1].status = NotFound

\* course i of the course map has been fetched and filtered in this run
FetchedCourses == 1..ci

\* the assignments the source holds for course i of the course map
AssignmentsOf(i) == source.assignments[CourseOf(course_map[i])]

\* the assignment was retained by get_all_filtered_assignments
Kept(i, a) ==
    \E k \in 1..Len(all_items) :
        all_items[k] = [cid |-> course_map[i], assignment |-> a]

\* the due date is missing, or is not a timestamp
Undated(a) == a.due_at.k \in {"null", "empty", "bad"}

\* the window bound is a calendar date
IsSet(bound) == bound.k = "date"

\* C8: an assignment without a due date, or with a due date that cannot be
\* parsed, passes the filter exactly when the include-undated flag is set,
\* whatever the window bounds are.
C8_UndatedFollowsFlag ==
    \A i \in FetchedCourses :
        \A n \in 1..Len(AssignmentsOf(i)) :
            LET a == AssignmentsOf(i)[n]
            IN Undated(a) => (Kept(i, a) <=> cfg.undated)

\* an assignment with a malformed due date was dropped, the flag being
\* unset, although no window is configured
C8_Witness ==
    /\ ci = 1
    /\ ~IsSet(cfg.start) /\ ~IsSet(cfg.end)
    /\ ~cfg.undated
    /\ AssignmentsOf(1)[1].due_at.k = "bad"
    /\ all_items = <<>>
    /\ pc = "done"

\* the UTC instant a timestamp with an offset denotes, in hours
UtcHours(ts) ==
    LET off == CASE ts.suffix = "+02:00" -> 2
                 [] ts.suffix = "-05:00" -> 0 - 5
                 [] OTHER -> 0
    IN (ts.day * 24 + ts.hour) - off

\* midnight UTC of a calendar date, in hours
Midnight(bound) == bound.day * 24

\* the due date is a timestamp that denotes an instant
HasInstant(a) == a.due_at.k = "iso" /\ a.due_at.suffix # ""

\* C9: an assignment due at instant d passes the filter iff start <= d when a
\* start date is set and d <= end when an end date is set, both comparisons
\* inclusive, a date bound standing for its midnight UTC.
C9_InclusiveWindow ==
    \A i \in FetchedCourses :
        \A n \in 1..Len(AssignmentsOf(i)) :
            LET a == AssignmentsOf(i)[n]
                d == UtcHours(a.due_at)
            IN HasInstant(a)
                 => (Kept(i, a) <=>
                        /\ IsSet(cfg.start) => Midnight(cfg.start) <= d
                        /\ IsSet(cfg.end) => d <= Midnight(cfg.end))

\* a due date written with an offset falls exactly on both bounds and is
\* retained
C9_Witness ==
    /\ ci = 1
    /\ IsSet(cfg.start) /\ IsSet(cfg.end)
    /\ cfg.start = cfg.end
    /\ AssignmentsOf(1)[1].due_at.suffix = "+02:00"
    /\ UtcHours(AssignmentsOf(1)[1].due_at) = Midnight(cfg.end)
    /\ Len(all_items) = 1

\* the source assignment a page was written for
SourceOf(page) ==
    CHOOSE a \in UNION { { source.assignments[c][n] :
                             n \in 1..Len(source.assignments[c]) } : c \in AllCourses } :
        ToStr(a.id) = page.ID

\* C10: every page written for an assignment whose submission has
\* workflow_state "unsubmitted" carries the status Not Started.
C10_UnsubmittedNotStarted ==
    \A d \in 1..Len(children) :
        \A n \in 1..Len(children[d].pages) :
            LET page == children[d].pages[n]
            IN SourceOf(page).sub = "unsubmitted" => page.Status = "Not Started"

\* the labels a Status select of the schema can hold
StatusLabels == { o.name : o \in build_db_properties_schema.Status.options }

\* every page of every database
AllPages ==
    UNION { { children[d].pages[n] : n \in 1..Len(children[d].pages) } :
              d \in 1..Len(children) }

\* the last request of the run posted a page
PagePosted ==
    /\ calls # <<>>
    /\ calls[Len(calls)].op = "create_page"
    /\ calls[Len(calls)].status = OK

\* the page that request posted and the assignment it was posted for
LastPage == children[new_db_id].pages[Len(children[new_db_id].pages)]
LastAssignment == all_items[si].assignment

\* the run failed right after the submission lookup had answered, without a
\* further request: the status could not be derived
NoLabel ==
    /\ pc = "failed"
    /\ calls # <<>>
    /\ calls[Len(calls)].op = "submission"
    /\ ~Raises(calls[Len(calls)])

C12_NoSubmissionStatus ==
    (PagePosted /\ LastAssignment.sub = "absent")
        => LastPage.Status =
              IF Undated(LastAssignment) THEN "Not Started"
              ELSE IF UtcHours(LastAssignment.due_at) < clock THEN "Overdue"
              ELSE "In Progress"

\* the timestamp field holds no usable value
NoTimestamp(ts) == ts.k \in {"null", "empty", "bad"}

\* the property is left out when the source value is absent and carries the
\* source value otherwise
OmittedOrEqual(page, key, value) ==
    IF value = Null THEN key \notin DOMAIN page
    ELSE key \in DOMAIN page /\ page[key] = value

\* the date property is left out when the source holds no timestamp and is
\* there otherwise
OmittedOrDated(page, key, ts) ==
    IF NoTimestamp(ts) THEN key \notin DOMAIN page
    ELSE key \in DOMAIN page /\ page[key].day = ts.day

\* the properties other than the link obey the omission rule
OtherFieldsOmitted(page) ==
    LET a == SourceOf(page)
        submitted == a.sub # "absent"
    IN /\ OmittedOrEqual(page, "Points", a.points_possible)
       /\ OmittedOrEqual(page, "Score", IF submitted THEN a.sub_score ELSE Null)
       /\ OmittedOrDated(page, "DueDate", a.due_at)
       /\ OmittedOrDated(page, "AssignmentUpdatedDate", a.updated_at)
       /\ OmittedOrDated(page, "SubmittedDate",
                         IF submitted THEN a.sub_submitted_at ELSE NullStr)

\* C13: no property of a posted page is an explicit null: due date, updated
\* date, submitted date, link, points and score are each left out when the
\* source value is absent and carry the source value otherwise.
C13_NoExplicitNull ==
    \A page \in AllPages :
        /\ \A key \in DOMAIN page \ {"ID", "Status"} : page[key] # Null
        /\ OmittedOrEqual(page, "Link", SourceOf(page).html_url)
        /\ OtherFieldsOmitted(page)

\* C14: the database a migration creates has the schema of the database it
\* replaces (same properties, types and select options), and the legacy
\* schema only when there was none to replace.
C14_SchemaPreserved ==
    new_db_id # 0
        => IF live_at_start # {}
           THEN \A d \in live_at_start :
                   children[new_db_id].schema = children[d].schema
           ELSE children[new_db_id].schema = build_db_properties_schema

\* the courses Canvas reports as active
ActiveCourses == { source.active[i] : i \in 1..Len(source.active) }

\* the allow-list intersected with the active courses, or all active courses
\* when no allow-list is given
Processed ==
    IF cfg.ids = {} THEN ActiveCourses
    ELSE { c \in ActiveCourses : ToStr(c) \in cfg.ids }

\* the course whose assignment list holds the assignment
CourseOfAssignment(a) ==
    CHOOSE c \in AllCourses :
        \E n \in 1..Len(source.assignments[c]) : source.assignments[c][n] = a

\* the courses request of the run has been answered
CoursesResolved ==
    \E i \in Positions : calls[i].op = "courses" /\ calls[i].status = OK

\* C15: the course map is the allow-list intersected with the active courses,
\* or all active courses without an allow-list; only courses of that set are
\* asked for assignments, and every retained assignment and every page of the
\* run belongs to a course of that set.
C15_CourseSet ==
    /\ CoursesResolved
          => { CourseOf(course_map[i]) : i \in 1..Len(course_map) } = Processed
    /\ \A i \in Positions :
          calls[i].op = "assignments" => calls[i].target \in Processed
    /\ \A k \in 1..Len(all_items) :
          /\ CourseOf(all_items[k].cid) \in Processed
          /\ CourseOfAssignment(all_items[k].assignment) = CourseOf(all_items[k].cid)
    /\ new_db_id # 0
          => \A n \in 1..Len(children[new_db_id].pages) :
                CourseOfAssignment(SourceOf(children[new_db_id].pages[n])) \in Processed

\* with an allow-list naming one active course and one unknown course, a run
\* over two active courses asked only that course for assignments and posted
\* its pages
C15_Witness ==
    /\ pc = "done"
    /\ Cardinality(ActiveCourses) = 2
    /\ Cardinality(cfg.ids) = 2
    /\ Cardinality(Processed) = 1
    /\ new_db_id # 0
    /\ Len(children[new_db_id].pages) = 2
    /\ Cardinality({ i \in Positions : calls[i].op = "assignments" }) = 1

\* the assignment falls in the configured window
InWindow(a) ==
    IF Undated(a) THEN cfg.undated
    ELSE /\ IsSet(cfg.start) => Midnight(cfg.start) <= UtcHours(a.due_at)
         /\ IsSet(cfg.end) => UtcHours(a.due_at) <= Midnight(cfg.end)

\* the natural keys the mirror has to hold: the assignments of the processed
\* courses that fall in the window
ExpectedKeys ==
    UNION { { ToStr(source.assignments[c][n].id) :
                n \in { m \in 1..Len(source.assignments[c]) :
                           InWindow(source.assignments[c][m]) } } :
            c \in Processed }

\* the natural keys of the pages of a database
KeysOf(d) == { children[d].pages[n].ID : n \in 1..Len(children[d].pages) }

\* the database holds one page for each expected key and no other page
Mirrors(d) ==
    /\ KeysOf(d) = ExpectedKeys
    /\ Len(children[d].pages) = Cardinality(ExpectedKeys)

\* C16 as stated: after every run that completes, the live database of the
\* title is the only one and holds exactly the expected records (so a second
\* run on the same source leaves the same record set as the first).
C16_MirrorAfterRun ==
    pc = "done" => \A d \in LiveTitled : LiveTitled = {d} /\ Mirrors(d)

\* C16 amended: after every run that completes having retained at least one
\* assignment, the database the run created is the only live database of the
\* title and holds exactly the expected records.
C16_MirrorAfterSync ==
    (pc = "done" /\ all_items # <<>>)
        => LiveTitled = {new_db_id} /\ Mirrors(new_db_id)

\* a second run completed; it dropped some assignment of a processed course,
\* and its database holds the same keys as the database of the first run,
\* which it archived
C16_Witness ==
    /\ pc = "done"
    /\ run = 2
    /\ all_items # <<>>
    /\ \E c \in Processed : \E n \in 1..Len(source.assignments[c]) :
          ~InWindow(source.assignments[c][n])
    /\ \E d \in 1..Len(children) :
          /\ d # new_db_id
          /\ children[d].archived
          /\ children[d].pages # <<>>
          /\ KeysOf(d) = KeysOf(new_db_id)

\* C17: once the archive pass and the create of a run have succeeded, the new
\* database is the only non-archived database of the title: every database
\* of the title that was live when the run began is archived, on whichever
\* page of the listing it appeared.
C17_OneLiveStore ==
    new_db_id # 0
        => /\ LiveTitled = {new_db_id}
           /\ \A d \in live_at_start : children[d].archived

\* a run that began with two live databases of the title, listed on a later
\* page than the first, has created its database
C17_Witness ==
    /\ new_db_id # 0
    /\ Cardinality(live_at_start) >= 2
    /\ \E d \in live_at_start : d > PageSize
    /\ Cardinality({ i \in Positions : calls[i].op = "children" }) >= 2
    /\ Cardinality({ i \in Positions : calls[i].op = "archive" }) >= 2

\* C18: as long as a run has retained no assignment (empty course set, or no
\* assignment in the window) it has made no request to the target and the
\* blocks under the parent page, with their pages, are what they were when
\* the run began; such a run ends without ever making one.
C18_NothingToSync ==
    all_items = <<>>
        => /\ \A i \in Positions : calls[i].op \notin NotionOps
           /\ children = children_at_start
           /\ pc \notin {"archive_list", "archive_patch", "create", "submission", "page"}

\* a run fetched its courses, retained no assignment and ended; the database
\* of an earlier sync is still live and still holds its page
C18_Witness ==
    /\ pc = "done"
    /\ course_map # <<>>
    /\ ci = Len(course_map)
    /\ all_items = <<>>
    /\ \E d \in LiveTitled : children[d].pages # <<>>

====
